---- MODULE Spec2Model ----
(***************************************************************************)
(* The per-connection state machine of yb/rpc/connection.cc: one           *)
(* Connection object (YB, Redis or CQL; client or server) driven by its    *)
(* reactor thread, together with the objects it calls into: the outbound   *)
(* calls of a client, the outbound transfers, the reactor's task queue and *)
(* the service that consumes inbound calls.                                *)
(*                                                                         *)
(* Handlers call one another (a transfer callback may re-enter the         *)
(* connection), so every method is an operator from a world record         *)
(*   w = [conn, calls, xfers, tasks, svc, env, log]                        *)
(* to the world after the method returned; an action applies one handler   *)
(* to the current world and commits the result.                            *)
(***************************************************************************)
EXTENDS Integers, Sequences, FiniteSets, TLC

\* Bounds of the model.
MaxCalls == 2       \* outbound calls handed to QueueOutboundCall
MaxFrames == 2      \* complete frames the peer puts on the wire
MaxCallId == 2      \* call ids a peer may write into a frame
MaxExcess == 1      \* complete frames a Redis read may buffer behind the first
XferSize == 2       \* bytes of an outbound transfer (lets a send be partial)

VARIABLES
  conn,    \* the Connection object's fields
  calls,   \* the OutboundCall objects, in the order they were handed over
  xfers,   \* the OutboundTransfer objects, in the order they were created
  tasks,   \* the reactor's pending ReactorTasks (FIFO)
  svc,     \* the service side: calls dispatched, calls being worked on
  env,     \* socket wire, negotiation driver, reactor and process status
  last     \* the handler that ran last, its input and what it logged

vars == <<conn, calls, xfers, tasks, svc, env, last>>

World ==
  [conn |-> conn, calls |-> calls, xfers |-> xfers, tasks |-> tasks,
   svc |-> svc, env |-> env, log |-> "none"]

EmptyMap == <<>>

MapRemove(f, k) == [x \in (DOMAIN f) \ {k} |-> f[x]]

Min(a, b) == IF a < b THEN a ELSE b

----------------------------------------------------------------------------
\* Connection::Connection
InitConn_ZeroId(proto, direction) ==
  [proto |-> proto,
   direction_ |-> direction,
   is_epoll_registered_ |-> FALSE,
   next_call_id_ |-> 0,
   negotiation_complete_ |-> FALSE,
   shutdown_status_ |-> "OK",
   read_io_active |-> FALSE,
   write_io_active |-> FALSE,
   socket_open |-> TRUE,
   inbound_ |-> <<>>,
   outbound_transfers_ |-> <<>>,
   awaiting_response_ |-> EmptyMap,
   calls_being_handled_ |-> EmptyMap,
   processing_call_ |-> FALSE,
   car_pool_live |-> 0]

InitConn(proto, direction) ==
  [proto |-> proto,
   direction_ |-> direction,
   is_epoll_registered_ |-> FALSE,
   next_call_id_ |-> 1,
   negotiation_complete_ |-> FALSE,
   shutdown_status_ |-> "OK",
   read_io_active |-> FALSE,
   write_io_active |-> FALSE,
   socket_open |-> TRUE,
   inbound_ |-> <<>>,
   outbound_transfers_ |-> <<>>,
   awaiting_response_ |-> EmptyMap,
   calls_being_handled_ |-> EmptyMap,
   processing_call_ |-> FALSE,
   car_pool_live |-> 0]

\* AbstractInboundTransfer: the complete frames buffered so far (the first is
\* this transfer's own frame) and whether bytes of a further, incomplete
\* frame are buffered.
TransferStarted(t) == t.partial \/ t.frames # <<>>

InboundTransferFinished(t) == t.frames # <<>>

NewInboundTransfer == [frames |-> <<>>, partial |-> FALSE]

\* AbstractInboundTransfer::ReceiveBuffer on a successful read rx: the
\* frames it completed are appended; rx.tail says whether bytes of an
\* incomplete frame remain buffered behind them.
ReceiveBuffer(t, rx) ==
  [frames |-> t.frames \o rx.fs,
   partial |-> IF rx.fs = <<>> THEN t.partial \/ rx.tail ELSE rx.tail]

\* RedisInboundTransfer::ExcessData: what was read behind the first frame,
\* as the next transfer, or null.
ExcessData(t) ==
  IF Len(t.frames) <= 1 /\ ~t.partial
  THEN <<>>
  ELSE << [frames |-> Tail(t.frames), partial |-> t.partial] >>

----------------------------------------------------------------------------
\* OutboundCall
IsFinished(c) == c.state \in {"TIMED_OUT", "FINISHED_ERROR", "FINISHED_SUCCESS"}

NoCallId == -1

NewCall(timeout) ==
  [call_id |-> NoCallId, state |-> "READY", status |-> "OK", timeout |-> timeout,
   accepted |-> FALSE, nResponse |-> 0, nTimedOut |-> 0, nFailed |-> 0]

SetQueued(w, k) == [w EXCEPT !.calls[k].state = "ON_OUTBOUND_QUEUE"]

SetSent(w, k) == [w EXCEPT !.calls[k].state = "SENT"]

SetFailedCall(c, status) ==
  [c EXCEPT !.state = "FINISHED_ERROR", !.status = status, !.nFailed = @ + 1]

SetFailed(w, k, status) == [w EXCEPT !.calls[k] = SetFailedCall(@, status)]

SetTimedOut(w, k) ==
  [w EXCEPT !.calls[k].state = "TIMED_OUT", !.calls[k].nTimedOut = @ + 1]

SetResponse(w, k) ==
  [w EXCEPT !.calls[k].state = "FINISHED_SUCCESS", !.calls[k].nResponse = @ + 1]

----------------------------------------------------------------------------
\* OutboundTransfer
NewTransfer(kind, ref) ==
  [kind |-> kind, ref |-> ref, sent |-> 0, aborted_ |-> FALSE, deleted |-> FALSE,
   nFinished |-> 0, nAborted |-> 0, astatus |-> "OK"]

TransferFinished(x) == x.sent = XferSize

----------------------------------------------------------------------------
\* A DCHECK whose condition is false: recorded (a release build goes on).
DCheck(w, cond, name) ==
  IF cond THEN w ELSE [w EXCEPT !.env.dcheck = @ \cup {name}]

RECURSIVE Shutdown(_, _)
RECURSIVE ClearOutboundTransfers(_)

\* ReactorThread::DestroyConnection: shuts the connection down and drops it
\* from the reactor's connection list.
DestroyConnection(w, status) ==
  Shutdown([w EXCEPT !.env.in_reactor = FALSE], status)

\* Messenger::QueueInboundCall: the call is handed to the service.
QueueInboundCall(w, f) ==
  [w EXCEPT !.svc.dispatched = Append(@, f.seq),
            !.svc.handling = @ \cup {f},
            !.svc.inflight = @ \cup {f}]

YBHandleIncomingCall_NoDuplicateCheck(w, t) ==
  LET f == t.frames[1] IN
  IF ~f.ok
  THEN DestroyConnection(w, "Corruption")
  ELSE QueueInboundCall(
         [w EXCEPT !.conn.calls_being_handled_ = (f.id :> f.seq) @@ @], f)

\* YBConnection::HandleIncomingCall
YBHandleIncomingCall(w, t) ==
  LET f == t.frames[1] IN
  IF ~f.ok
  THEN DestroyConnection(w, "Corruption")
  ELSE IF f.id \in DOMAIN w.conn.calls_being_handled_
       THEN DestroyConnection(w, "RuntimeError: Received duplicate call id")
       ELSE QueueInboundCall(
              [w EXCEPT !.conn.calls_being_handled_ = (f.id :> f.seq) @@ @], f)

\* RedisConnection::HandleIncomingCall
RedisHandleIncomingCall(w, t) ==
  LET f == t.frames[1] IN
  IF ~f.ok
  THEN DestroyConnection(w, "Corruption")
  ELSE QueueInboundCall([w EXCEPT !.conn.processing_call_ = TRUE], f)

\* CQLConnection::HandleIncomingCall
CQLHandleIncomingCall(w, t) ==
  LET f == t.frames[1] IN
  IF ~f.ok THEN w ELSE QueueInboundCall(w, f)

HandleCallResponse_LeaksOnLate(w, t) ==
  LET f == t.frames[1]
      ar == w.conn.awaiting_response_
  IN
  IF ~f.ok
  THEN [w EXCEPT !.env.crashed = TRUE]
  ELSE IF f.id \notin DOMAIN ar
       THEN [w EXCEPT !.log = "warning: not pending"]
       ELSE LET car == ar[f.id]
                w1 == [w EXCEPT !.conn.awaiting_response_ = MapRemove(@, f.id)]
            IN IF car.call = 0
               THEN [w1 EXCEPT !.log = "vlog: response after timeout"]
               ELSE [SetResponse([w1 EXCEPT !.conn.car_pool_live = @ - 1], car.call)
                       EXCEPT !.log = "delivered"]

HandleCallResponse_RejectsUnknownId(w, t) ==
  LET f == t.frames[1]
      ar == w.conn.awaiting_response_
  IN
  IF ~f.ok
  THEN [w EXCEPT !.env.crashed = TRUE]
  ELSE IF f.id \notin DOMAIN ar
       THEN DestroyConnection(w, "Corruption")
       ELSE LET car == ar[f.id]
                w1 == [w EXCEPT !.conn.awaiting_response_ = MapRemove(@, f.id),
                                !.conn.car_pool_live = @ - 1]
            IN IF car.call = 0
               THEN [w1 EXCEPT !.log = "vlog: response after timeout"]
               ELSE [SetResponse(w1, car.call) EXCEPT !.log = "delivered"]

\* Connection::HandleCallResponse
HandleCallResponse(w, t) ==
  LET f == t.frames[1]
      ar == w.conn.awaiting_response_
  IN
  IF ~f.ok
  THEN [w EXCEPT !.env.crashed = TRUE]     \* CHECK_OK(resp->ParseFrom(...))
  ELSE IF f.id \notin DOMAIN ar
       THEN [w EXCEPT !.log = "warning: not pending"]
       ELSE LET car == ar[f.id]
                w1 == [w EXCEPT !.conn.awaiting_response_ = MapRemove(@, f.id),
                                !.conn.car_pool_live = @ - 1]
            IN IF car.call = 0
               THEN [w1 EXCEPT !.log = "vlog: response after timeout"]
               ELSE [SetResponse(w1, car.call) EXCEPT !.log = "delivered"]

\* YBConnection::HandleFinishedTransfer
YBHandleFinishedTransfer(w) ==
  LET t == w.conn.inbound_[1]
      w1 == [w EXCEPT !.conn.inbound_ = <<>>]
  IN IF w.conn.direction_ = "CLIENT"
     THEN HandleCallResponse(w1, t)
     ELSE YBHandleIncomingCall(w1, t)

RedisHandleFinishedTransfer_NoParking(w) ==
  LET t == w.conn.inbound_[1]
      next_transfer == ExcessData(t)
      w1 == RedisHandleIncomingCall([w EXCEPT !.conn.inbound_ = <<>>], t)
  IN [w1 EXCEPT !.conn.inbound_ = next_transfer]

RedisHandleFinishedTransfer_NewestFirst(w) ==
  IF w.conn.processing_call_
  THEN w
  ELSE LET t == w.conn.inbound_[1]
           n == Len(t.frames)
           newest == [frames |-> <<t.frames[n]>>, partial |-> FALSE]
           next_transfer ==
             IF n = 1 /\ ~t.partial
             THEN <<>>
             ELSE << [frames |-> SubSeq(t.frames, 1, n - 1), partial |-> t.partial] >>
           w1 == RedisHandleIncomingCall([w EXCEPT !.conn.inbound_ = <<>>], newest)
       IN [w1 EXCEPT !.conn.inbound_ = next_transfer]

\* RedisConnection::HandleFinishedTransfer
RedisHandleFinishedTransfer(w) ==
  IF w.conn.processing_call_
  THEN w
  ELSE LET t == w.conn.inbound_[1]
           next_transfer == ExcessData(t)
           w1 == RedisHandleIncomingCall([w EXCEPT !.conn.inbound_ = <<>>], t)
       IN [w1 EXCEPT !.conn.inbound_ = next_transfer]

CQLHandleFinishedTransfer_SingleInFlight(w) ==
  IF w.conn.direction_ # "SERVER"
  THEN [w EXCEPT !.env.crashed = TRUE]
  ELSE IF w.svc.inflight # {}
       THEN w
       ELSE CQLHandleIncomingCall([w EXCEPT !.conn.inbound_ = <<>>], w.conn.inbound_[1])

\* CQLConnection::HandleFinishedTransfer
CQLHandleFinishedTransfer(w) ==
  IF w.conn.direction_ # "SERVER"
  THEN [w EXCEPT !.env.crashed = TRUE]     \* CHECK(direction_ == SERVER)
  ELSE CQLHandleIncomingCall([w EXCEPT !.conn.inbound_ = <<>>], w.conn.inbound_[1])

\* The virtual HandleFinishedTransfer, by the connection's class.
HandleFinishedTransfer(w) ==
  CASE w.conn.proto = "YB" -> YBHandleFinishedTransfer(w)
    [] w.conn.proto = "Redis" -> RedisHandleFinishedTransfer(w)
    [] w.conn.proto = "CQL" -> CQLHandleFinishedTransfer(w)

RedisFinishedHandlingACall_NoRedrive(w) ==
  [w EXCEPT !.conn.processing_call_ = FALSE]

\* RedisConnection::FinishedHandlingACall
RedisFinishedHandlingACall(w) ==
  LET w1 == [w EXCEPT !.conn.processing_call_ = FALSE] IN
  IF w1.conn.inbound_ # <<>> /\ InboundTransferFinished(w1.conn.inbound_[1])
  THEN RedisHandleFinishedTransfer(w1)
  ELSE w1

\* CQLConnection::FinishedHandlingACall
CQLFinishedHandlingACall(w) ==
  IF w.conn.inbound_ # <<>> /\ InboundTransferFinished(w.conn.inbound_[1])
  THEN CQLHandleFinishedTransfer(w)
  ELSE w

\* ~YBResponseTransferCallbacks, ~RedisResponseTransferCallbacks,
\* ~CQLResponseTransferCallbacks: run by "delete this" in both edges of
\* ResponseTransferCallbacks. f is the inbound call the callback owns.
ResponseTransferCallbacksDtor(w, f) ==
  LET w1 == [w EXCEPT !.svc.inflight = @ \ {f}] IN
  CASE w.conn.proto = "YB" ->
         LET cbh == w1.conn.calls_being_handled_ IN
         DCheck([w1 EXCEPT !.conn.calls_being_handled_ = MapRemove(@, f.id)],
                f.id \in DOMAIN cbh /\ cbh[f.id] = f.seq,
                "call_from_map == call_")
    [] w.conn.proto = "Redis" -> RedisFinishedHandlingACall(w1)
    [] w.conn.proto = "CQL" -> CQLFinishedHandlingACall(w1)

CallTransferFinished_AlwaysSent(w, k) == SetSent(w, k)

\* CallTransferCallbacks::NotifyTransferFinished, for the call k it holds.
CallTransferFinished(w, k) ==
  IF IsFinished(w.calls[k])
  THEN DCheck(w, w.calls[k].state = "TIMED_OUT", "call_->IsTimedOut()")
  ELSE SetSent(w, k)

\* TransferCallbacks::NotifyTransferFinished of transfer t's callback.
NotifyTransferFinished(w, t) ==
  LET x == w.xfers[t]
      w1 == [w EXCEPT !.xfers[t].nFinished = @ + 1]
  IN IF x.kind = "call"
     THEN CallTransferFinished(w1, x.ref)
     ELSE ResponseTransferCallbacksDtor(w1, x.ref)

\* TransferCallbacks::NotifyTransferAborted of transfer t's callback:
\* CallTransferCallbacks only logs, ResponseTransferCallbacks logs and is
\* deleted.
NotifyTransferAborted(w, t, status) ==
  LET x == w.xfers[t]
      w1 == [w EXCEPT !.xfers[t].nAborted = @ + 1, !.xfers[t].astatus = status]
  IN IF x.kind = "call"
     THEN w1
     ELSE ResponseTransferCallbacksDtor(w1, x.ref)

\* OutboundTransfer::Abort
OutboundTransferAbort(w, t, status) ==
  NotifyTransferAborted([w EXCEPT !.xfers[t].aborted_ = TRUE], t, status)

\* OutboundTransfer::~OutboundTransfer: a transfer destroyed before it was
\* sent or aborted reports the abort to its callback.
OutboundTransferDtor(w, t) ==
  LET x == w.xfers[t]
      w1 == [w EXCEPT !.xfers[t].deleted = TRUE]
  IN IF ~TransferFinished(x) /\ ~x.aborted_
     THEN NotifyTransferAborted(w1, t, w.conn.shutdown_status_)
     ELSE w1

\* OutboundTransfer::SendBuffer when the socket takes n bytes.
SendBuffer(w, t, n) ==
  LET w1 == [w EXCEPT !.xfers[t].sent = @ + n,
                      !.env.wire = @ \o [i \in 1..n |-> t]]
  IN IF TransferFinished(w1.xfers[t]) /\ n > 0
     THEN NotifyTransferFinished(w1, t)
     ELSE w1

FailAwaitingResponse_SkipsSent(w, status) ==
  LET ar == w.conn.awaiting_response_
      live == {ar[id].call : id \in DOMAIN ar} \ {0}
  IN [w EXCEPT !.calls = [k \in DOMAIN w.calls |->
                            IF k \in live /\ w.calls[k].state # "SENT"
                            THEN SetFailedCall(w.calls[k], status)
                            ELSE w.calls[k]],
               !.conn.car_pool_live = @ - Cardinality(DOMAIN ar),
               !.conn.awaiting_response_ = EmptyMap]

\* Connection::Shutdown, "Clear any calls which have been sent and were
\* awaiting a response".
FailAwaitingResponse(w, status) ==
  LET ar == w.conn.awaiting_response_
      live == {ar[id].call : id \in DOMAIN ar} \ {0}
  IN [w EXCEPT !.calls = [k \in DOMAIN w.calls |->
                            IF k \in live THEN SetFailedCall(w.calls[k], status)
                            ELSE w.calls[k]],
               !.conn.car_pool_live = @ - Cardinality(DOMAIN ar),
               !.conn.awaiting_response_ = EmptyMap]

ClearOutboundTransfers_Leaks(w) ==
  [w EXCEPT !.conn.outbound_transfers_ = <<>>]

\* Connection::Shutdown, "Clear any outbound transfers".
ClearOutboundTransfers(w) ==
  IF w.conn.outbound_transfers_ = <<>>
  THEN w
  ELSE LET t == Head(w.conn.outbound_transfers_)
           w1 == [w EXCEPT !.conn.outbound_transfers_ = Tail(@)]
       IN ClearOutboundTransfers(OutboundTransferDtor(w1, t))

CloseSteps_CloseFirst(c) ==
  LET c1 == [c EXCEPT !.socket_open = FALSE]
      c2 == [c1 EXCEPT !.read_io_active = FALSE]
      c3 == [c2 EXCEPT !.write_io_active = FALSE]
      c4 == [c3 EXCEPT !.is_epoll_registered_ = FALSE]
  IN <<c1, c2, c3, c4>>

\* Connection::Shutdown, its last four statements: the states of the
\* connection after read_io_.stop(), write_io_.stop(), the clearing of
\* is_epoll_registered_ and socket_.Close(), in that order.
CloseSteps(c) ==
  LET c1 == [c EXCEPT !.read_io_active = FALSE]
      c2 == [c1 EXCEPT !.write_io_active = FALSE]
      c3 == [c2 EXCEPT !.is_epoll_registered_ = FALSE]
      c4 == [c3 EXCEPT !.socket_open = FALSE]
  IN <<c1, c2, c3, c4>>

Shutdown_StatusLast(w, status) ==
  LET w2 == FailAwaitingResponse(w, status)
      w3 == ClearOutboundTransfers(w2)
  IN [w3 EXCEPT !.conn = CloseSteps([@ EXCEPT !.shutdown_status_ = status])[4]]

\* Connection::Shutdown
Shutdown(w, status) ==
  LET w1 == [w EXCEPT !.conn.shutdown_status_ = status]
      w2 == FailAwaitingResponse(w1, status)
      w3 == ClearOutboundTransfers(w2)
  IN [w3 EXCEPT !.conn = CloseSteps(@)[4]]

QueueOutbound_PushFront(w, t) ==
  IF w.conn.shutdown_status_ # "OK"
  THEN OutboundTransferDtor(OutboundTransferAbort(w, t, w.conn.shutdown_status_), t)
  ELSE LET w1 == [w EXCEPT !.conn.outbound_transfers_ = <<t>> \o @,
                           !.env.enq = Append(@, t)]
       IN IF w1.conn.negotiation_complete_ /\ ~w1.conn.write_io_active
          THEN [w1 EXCEPT !.conn.write_io_active = TRUE]
          ELSE w1

QueueOutbound_IgnoresNegotiation(w, t) ==
  IF w.conn.shutdown_status_ # "OK"
  THEN OutboundTransferDtor(OutboundTransferAbort(w, t, w.conn.shutdown_status_), t)
  ELSE LET w1 == [w EXCEPT !.conn.outbound_transfers_ = Append(@, t),
                           !.env.enq = Append(@, t)]
       IN IF ~w1.conn.write_io_active
          THEN [w1 EXCEPT !.conn.write_io_active = TRUE]
          ELSE w1

QueueOutbound_NoShutdownCheck(w, t) ==
  LET w1 == [w EXCEPT !.conn.outbound_transfers_ = Append(@, t),
                      !.env.enq = Append(@, t)]
  IN IF w1.conn.negotiation_complete_ /\ ~w1.conn.write_io_active
     THEN [w1 EXCEPT !.conn.write_io_active = TRUE]
     ELSE w1

\* Connection::QueueOutbound
QueueOutbound(w, t) ==
  IF w.conn.shutdown_status_ # "OK"
  THEN OutboundTransferDtor(OutboundTransferAbort(w, t, w.conn.shutdown_status_), t)
  ELSE LET w1 == [w EXCEPT !.conn.outbound_transfers_ = Append(@, t),
                           !.env.enq = Append(@, t)]
       IN IF w1.conn.negotiation_complete_ /\ ~w1.conn.write_io_active
          THEN [w1 EXCEPT !.conn.write_io_active = TRUE]
          ELSE w1

\* Connection::GetNextCallId
GetNextCallId(w) == [w EXCEPT !.conn.next_call_id_ = @ + 1]

QueueOutboundCall_NoShutdownCheck(w, in) ==
  LET k == Len(w.calls) + 1
      w0 == [w EXCEPT !.calls = Append(@, NewCall(in.timeout))]
      call_id == w0.conn.next_call_id_
      w1 == [GetNextCallId(w0) EXCEPT !.calls[k].call_id = call_id]
  IN
  IF ~in.ser_ok
  THEN SetFailed(w1, k, "SerializeError")
  ELSE LET w2 == SetQueued(w1, k)
           car == [call |-> k, timer |-> in.timeout]
           t == Len(w2.xfers) + 1
           w3 == [w2 EXCEPT !.conn.car_pool_live = @ + 1,
                            !.conn.awaiting_response_ = (call_id :> car) @@ @,
                            !.calls[k].accepted = TRUE,
                            !.xfers = Append(@, NewTransfer("call", k))]
       IN QueueOutbound(w3, t)

QueueOutboundCall_SerializeFirst(w, in) ==
  LET k == Len(w.calls) + 1
      w0 == [w EXCEPT !.calls = Append(@, NewCall(in.timeout))]
  IN
  IF w0.conn.shutdown_status_ # "OK"
  THEN SetFailed(w0, k, w0.conn.shutdown_status_)
  ELSE IF ~in.ser_ok
       THEN SetFailed(w0, k, "SerializeError")
       ELSE LET call_id == w0.conn.next_call_id_
                w1 == [GetNextCallId(w0) EXCEPT !.calls[k].call_id = call_id]
                w2 == SetQueued(w1, k)
                car == [call |-> k, timer |-> in.timeout]
                t == Len(w2.xfers) + 1
                w3 == [w2 EXCEPT !.conn.car_pool_live = @ + 1,
                                 !.conn.awaiting_response_ = (call_id :> car) @@ @,
                                 !.calls[k].accepted = TRUE,
                                 !.xfers = Append(@, NewTransfer("call", k))]
            IN QueueOutbound(w3, t)

\* Connection::QueueOutboundCall for a new call object; in.timeout says
\* whether the call's controller has a timeout, in.ser_ok whether
\* OutboundCall::SerializeTo succeeds.
QueueOutboundCall(w, in) ==
  LET k == Len(w.calls) + 1
      w0 == [w EXCEPT !.calls = Append(@, NewCall(in.timeout))]
  IN
  IF w0.conn.shutdown_status_ # "OK"
  THEN SetFailed(w0, k, w0.conn.shutdown_status_)
  ELSE LET call_id == w0.conn.next_call_id_
           w1 == [GetNextCallId(w0) EXCEPT !.calls[k].call_id = call_id]
       IN
       IF ~in.ser_ok
       THEN SetFailed(w1, k, "SerializeError")
       ELSE LET w2 == SetQueued(w1, k)
                car == [call |-> k, timer |-> in.timeout]
                t == Len(w2.xfers) + 1
                w3 == [w2 EXCEPT !.conn.car_pool_live = @ + 1,
                                 !.conn.awaiting_response_ = (call_id :> car) @@ @,
                                 !.calls[k].accepted = TRUE,
                                 !.xfers = Append(@, NewTransfer("call", k))]
            IN QueueOutbound(w3, t)

HandleOutboundCallTimeout_KeepsCall(w, id) ==
  SetTimedOut(w, w.conn.awaiting_response_[id].call)

HandleOutboundCallTimeout_ErasesEntry(w, id) ==
  LET k == w.conn.awaiting_response_[id].call IN
  [SetTimedOut(w, k) EXCEPT !.conn.awaiting_response_ = MapRemove(@, id),
                            !.conn.car_pool_live = @ - 1]

HandleOutboundCallTimeout_DropsTransfer(w, id) ==
  LET k == w.conn.awaiting_response_[id].call IN
  [SetTimedOut(w, k) EXCEPT
     !.conn.awaiting_response_[id].call = 0,
     !.conn.outbound_transfers_ =
        SelectSeq(@, LAMBDA t : ~(w.xfers[t].kind = "call" /\ w.xfers[t].ref = k))]

\* Connection::HandleOutboundCallTimeout for the entry under call id.
HandleOutboundCallTimeout(w, id) ==
  LET k == w.conn.awaiting_response_[id].call
      w0 == DCheck(DCheck(w, k # 0, "car->call"),
                   k = 0 \/ ~IsFinished(w.calls[k]), "!car->call->IsFinished()")
  IN IF k = 0
     THEN [w0 EXCEPT !.env.crashed = TRUE]      \* car->call->SetTimedOut() on null
     ELSE [SetTimedOut(w0, k) EXCEPT !.conn.awaiting_response_[id].call = 0]

HandleTimeout_Repeats(w, id) == HandleOutboundCallTimeout(w, id)

\* Connection::CallAwaitingResponse::HandleTimeout: the one-shot timer of
\* the entry fired.
HandleTimeout(w, id) ==
  HandleOutboundCallTimeout([w EXCEPT !.conn.awaiting_response_[id].timer = FALSE], id)

Idle_IgnoresNegotiation(c) ==
  IF c.inbound_ # <<>> /\ TransferStarted(c.inbound_[1]) THEN FALSE
  ELSE IF c.outbound_transfers_ # <<>> THEN FALSE
  ELSE IF DOMAIN c.awaiting_response_ # {} THEN FALSE
  ELSE IF DOMAIN c.calls_being_handled_ # {} THEN FALSE
  ELSE TRUE

\* Connection::~Connection: two CHECKs, each fatal when it fails.
ConnectionDtor(w) ==
  LET failed ==
        (IF w.conn.outbound_transfers_ # <<>>
         THEN {"CHECK(outbound_transfers_ empty)"} ELSE {})
        \cup
        (IF w.conn.is_epoll_registered_
         THEN {"CHECK(!is_epoll_registered_)"} ELSE {})
  IN [w EXCEPT !.env.dcheck = @ \cup failed,
               !.env.crashed = @ \/ failed # {},
               !.env.phase = "destroyed"]

Idle_IgnoresTombstones(c) ==
  IF c.inbound_ # <<>> /\ TransferStarted(c.inbound_[1]) THEN FALSE
  ELSE IF c.outbound_transfers_ # <<>> THEN FALSE
  ELSE IF \E id \in DOMAIN c.awaiting_response_ :
            c.awaiting_response_[id].call # 0 THEN FALSE
  ELSE IF DOMAIN c.calls_being_handled_ # {} THEN FALSE
  ELSE IF ~c.negotiation_complete_ THEN FALSE
  ELSE TRUE

\* Connection::Idle
Idle(c) ==
  IF c.inbound_ # <<>> /\ TransferStarted(c.inbound_[1]) THEN FALSE
  ELSE IF c.outbound_transfers_ # <<>> THEN FALSE
  ELSE IF DOMAIN c.awaiting_response_ # {} THEN FALSE
  ELSE IF DOMAIN c.calls_being_handled_ # {} THEN FALSE
  ELSE IF ~c.negotiation_complete_ THEN FALSE
  ELSE TRUE

EpollRegister_StartsWrite(w) ==
  [w EXCEPT !.conn.write_io_active =
              IF w.conn.direction_ = "CLIENT" THEN TRUE ELSE @,
            !.conn.read_io_active = TRUE,
            !.conn.is_epoll_registered_ = TRUE]

DumpPB_ListsAllEntries(c) ==
  [state |-> IF c.negotiation_complete_ THEN "OPEN" ELSE "NEGOTIATING",
   remote_user_credentials |->
     IF c.negotiation_complete_ THEN <<"user_credentials_">> ELSE <<>>,
   calls_in_flight |->
     IF c.direction_ = "CLIENT"
     THEN {c.awaiting_response_[id].call : id \in DOMAIN c.awaiting_response_}
     ELSE {c.calls_being_handled_[id] : id \in DOMAIN c.calls_being_handled_}]

\* Connection::DumpPB: the state, the credentials (absent while
\* negotiating) and the calls in flight it writes to the response: on a
\* client the calls of the pending entries whose call handle is set, on a
\* server the calls being handled.
DumpPB(c) ==
  [state |-> IF c.negotiation_complete_ THEN "OPEN" ELSE "NEGOTIATING",
   remote_user_credentials |->
     IF c.negotiation_complete_ THEN <<"user_credentials_">> ELSE <<>>,
   calls_in_flight |->
     IF c.direction_ = "CLIENT"
     THEN {c.awaiting_response_[id].call :
             id \in {i \in DOMAIN c.awaiting_response_ :
                       c.awaiting_response_[i].call # 0}}
     ELSE {c.calls_being_handled_[id] : id \in DOMAIN c.calls_being_handled_}]

\* Connection::EpollRegister
EpollRegister(w) ==
  [w EXCEPT !.conn.write_io_active =
              IF w.conn.direction_ = "CLIENT" /\ w.conn.negotiation_complete_
              THEN TRUE ELSE @,
            !.conn.read_io_active = TRUE,
            !.conn.is_epoll_registered_ = TRUE]

\* Connection::MarkNegotiationComplete
MarkNegotiationComplete(w) == [w EXCEPT !.conn.negotiation_complete_ = TRUE]

\* ReactorThread::CompleteConnectionNegotiation, run by
\* NegotiationCompletedTask::Run.
CompleteConnectionNegotiation(w, status) ==
  IF status # "OK"
  THEN DestroyConnection(w, status)
  ELSE [MarkNegotiationComplete(w) EXCEPT !.env.phase = "done"]

\* Connection::CompleteNegotiation: schedules a NegotiationCompletedTask.
CompleteNegotiation(w, status) ==
  [w EXCEPT !.tasks = Append(@, [type |-> "neg", t |-> 0, st |-> status]),
            !.env.phase = "reported"]

QueueResponseForCall_Direct(w, f) ==
  LET t == Len(w.xfers) + 1 IN
  QueueOutbound([w EXCEPT !.svc.handling = @ \ {f},
                          !.xfers = Append(@, NewTransfer("resp", f))], t)

\* Connection::QueueResponseForCall for the inbound call f: builds the
\* response transfer and schedules a QueueTransferTask.
QueueResponseForCall(w, f) ==
  LET t == Len(w.xfers) + 1 IN
  [w EXCEPT !.svc.handling = @ \ {f},
            !.xfers = Append(@, NewTransfer("resp", f)),
            !.tasks = Append(@, [type |-> "xfer", t |-> t, st |-> "OK"])]

\* QueueTransferTask::Run and NegotiationCompletedTask::Run
RunReactorTask(w, task) ==
  IF task.type = "xfer"
  THEN QueueOutbound(w, task.t)
  ELSE CompleteConnectionNegotiation(w, task.st)

\* QueueTransferTask::Abort and NegotiationCompletedTask::Abort
AbortReactorTask(w, task, status) ==
  IF task.type = "xfer"
  THEN OutboundTransferDtor(OutboundTransferAbort(w, task.t, status), task.t)
  ELSE w

ReadHandler_DropsPartial(w, in) ==
  IF in.ev_error
  THEN DestroyConnection(w, "NetworkError")
  ELSE LET w0 == IF w.conn.inbound_ = <<>>
                 THEN [w EXCEPT !.conn.inbound_ = <<NewInboundTransfer>>]
                 ELSE w
       IN
       IF in.rx.k = "err"
       THEN DestroyConnection(w0, in.rx.st)
       ELSE LET w1 == [w0 EXCEPT !.conn.inbound_[1] = ReceiveBuffer(@, in.rx),
                                 !.env.nframes = @ + Len(in.rx.fs)]
            IN IF ~InboundTransferFinished(w1.conn.inbound_[1])
               THEN [w1 EXCEPT !.conn.inbound_ = <<>>]
               ELSE HandleFinishedTransfer(w1)

\* Connection::ReadHandler; in.ev_error is revents & EV_ERROR, in.rx what
\* ReceiveBuffer finds on the socket.
ReadHandler(w, in) ==
  IF in.ev_error
  THEN DestroyConnection(w, "NetworkError")
  ELSE LET w0 == IF w.conn.inbound_ = <<>>
                 THEN [w EXCEPT !.conn.inbound_ = <<NewInboundTransfer>>]
                 ELSE w
       IN
       IF in.rx.k = "err"
       THEN DestroyConnection(w0, in.rx.st)
       ELSE LET w1 == [w0 EXCEPT !.conn.inbound_[1] = ReceiveBuffer(@, in.rx),
                                 !.env.nframes = @ + Len(in.rx.fs)]
            IN IF ~InboundTransferFinished(w1.conn.inbound_[1])
               THEN w1
               ELSE HandleFinishedTransfer(w1)

\* The loop of Connection::WriteHandler. The socket takes budget more bytes;
\* once it takes no more, the next SendBuffer fails if err and else writes
\* nothing. ub is what the build does if the transfer being sent was freed
\* under the handler (a callback run by SendBuffer shut the connection down):
\* the handler then reads freed memory.
RECURSIVE WriteLoop(_, _, _, _)
WriteLoop(w, budget, err, ub) ==
  IF w.conn.outbound_transfers_ = <<>>
  THEN [w EXCEPT !.conn.write_io_active = FALSE]
  ELSE LET t == Head(w.conn.outbound_transfers_)
           n == Min(budget, XferSize - w.xfers[t].sent)
       IN
       IF budget = 0 /\ err
       THEN DestroyConnection(w, "NetworkError")
       ELSE LET w1 == SendBuffer(w, t, n) IN
            IF w1.xfers[t].deleted
            THEN [w1 EXCEPT !.env.crashed = (ub = "crash"),
                            !.env.ub = TRUE]
            ELSE IF ~TransferFinished(w1.xfers[t])
                 THEN w1
                 ELSE WriteLoop(
                        OutboundTransferDtor(
                          [w1 EXCEPT !.conn.outbound_transfers_ = Tail(@)], t),
                        budget - n, err, ub)

WriteHandler_LeavesArmed(w, in) ==
  IF in.ev_error
  THEN DestroyConnection(w, "NetworkError")
  ELSE IF w.conn.outbound_transfers_ = <<>>
       THEN [w EXCEPT !.log = "warning: nothing to write"]
       ELSE WriteLoop(w, in.budget, in.err, in.ub)

WriteHandler_NoStopWhenDrained(w, in) ==
  IF in.ev_error
  THEN DestroyConnection(w, "NetworkError")
  ELSE IF w.conn.outbound_transfers_ = <<>>
       THEN [w EXCEPT !.conn.write_io_active = FALSE,
                      !.log = "warning: nothing to write"]
       ELSE LET r == WriteLoop(w, in.budget, in.err, in.ub)
            IN IF r.conn.shutdown_status_ = "OK"
               THEN [r EXCEPT !.conn.write_io_active = w.conn.write_io_active]
               ELSE r

\* Connection::WriteHandler
WriteHandler(w, in) ==
  IF in.ev_error
  THEN DestroyConnection(w, "NetworkError")
  ELSE IF w.conn.outbound_transfers_ = <<>>
       THEN [w EXCEPT !.conn.write_io_active = FALSE,
                      !.log = "warning: nothing to write"]
       ELSE WriteLoop(w, in.budget, in.err, in.ub)

----------------------------------------------------------------------------
\* The inputs of the handlers.
Directions == {<<"YB", "CLIENT">>, <<"YB", "SERVER">>,
               <<"Redis", "SERVER">>, <<"CQL", "SERVER">>}

FrameIds(c) == IF c.proto = "YB" THEN 1..MaxCallId ELSE {0}

\* The sequences of n new complete frames, numbered in wire order after base.
NewFrames(c, base, n) ==
  { [i \in 1..n |-> [seq |-> base + i, id |-> x[i].id, ok |-> x[i].ok]] :
      x \in [1..n -> [id : FrameIds(c), ok : BOOLEAN]] }

\* How many complete frames one read may add: a YB or CQL transfer reads one
\* frame exactly, a Redis transfer reads what is there.
MaxNewFrames(c, nframes) ==
  LET buffered == IF c.inbound_ = <<>> THEN 0 ELSE Len(c.inbound_[1].frames)
      room == IF c.proto = "Redis" THEN 1 + MaxExcess - buffered ELSE 1 - buffered
  IN Min(room, MaxFrames - nframes)

RxInputs(c, nframes) ==
  { [k |-> "err", fs |-> <<>>, tail |-> FALSE, st |-> "NetworkError"] }
  \cup
  { [k |-> "data", fs |-> fs, tail |-> tail, st |-> "OK"] :
      fs \in UNION { NewFrames(c, nframes, n) : n \in 0..MaxNewFrames(c, nframes) },
      tail \in BOOLEAN }

ReadInputs(c, nframes) ==
  { [ev_error |-> TRUE, rx |-> [k |-> "none", fs |-> <<>>, tail |-> FALSE, st |-> "OK"]] }
  \cup
  { [ev_error |-> FALSE, rx |-> rx] :
      rx \in { r \in RxInputs(c, nframes) :
                 c.proto = "Redis" \/ r.fs = <<>> \/ ~r.tail } }

QueuedBytes(w) ==
  LET q == w.conn.outbound_transfers_ IN
  IF q = <<>> THEN 0 ELSE Len(q) * XferSize - w.xfers[Head(q)].sent

WriteInputs(w) ==
  { [ev_error |-> TRUE, budget |-> 0, err |-> FALSE, ub |-> "benign"] }
  \cup
  [ev_error : {FALSE}, budget : 0..QueuedBytes(w), err : BOOLEAN,
   ub : {"crash", "benign"}]

----------------------------------------------------------------------------
Init ==
  /\ \E d \in Directions : conn = InitConn(d[1], d[2])
  /\ calls = <<>>
  /\ xfers = <<>>
  /\ tasks = <<>>
  /\ svc = [dispatched |-> <<>>, handling |-> {}, inflight |-> {}]
  /\ env = [phase |-> "fresh", in_reactor |-> FALSE, closing |-> FALSE,
            crashed |-> FALSE, ub |-> FALSE, nframes |-> 0,
            wire |-> <<>>, enq |-> <<>>, dcheck |-> {}]
  /\ last = [op |-> "Connection", arg |-> 0, log |-> "none"]

Commit(w, op, arg) ==
  /\ conn' = w.conn
  /\ calls' = w.calls
  /\ xfers' = w.xfers
  /\ tasks' = w.tasks
  /\ svc' = w.svc
  /\ env' = w.env
  /\ last' = [op |-> op, arg |-> arg, log |-> w.log]

Running == ~env.crashed /\ env.phase # "destroyed"

\* The reactor registers the fresh connection and hands it to the
\* negotiation driver.
RegisterConnection ==
  /\ Running
  /\ env.phase = "fresh"
  /\ ~env.closing
  /\ Commit([EpollRegister(World) EXCEPT !.env.phase = "negotiating",
                                         !.env.in_reactor = TRUE],
            "EpollRegister", 0)

\* The negotiation driver reports its result from the negotiation thread.
NegotiationDone ==
  /\ Running
  /\ env.phase = "negotiating"
  /\ \E status \in {"OK", "NegotiationFailed"} :
       Commit(CompleteNegotiation(World, status), "CompleteNegotiation", status)

\* The reactor runs its oldest pending task.
RunTask ==
  /\ Running
  /\ ~env.closing
  /\ tasks # <<>>
  /\ Commit(RunReactorTask([World EXCEPT !.tasks = Tail(@)], Head(tasks)),
            "RunTask", Head(tasks))

\* The closing reactor aborts its oldest pending task.
AbortTask ==
  /\ Running
  /\ env.closing
  /\ tasks # <<>>
  /\ Commit(AbortReactorTask([World EXCEPT !.tasks = Tail(@)], Head(tasks), "Aborted"),
            "AbortTask", Head(tasks))

\* The reactor shuts down: it shuts down the connections it still holds.
ReactorShutdown ==
  /\ Running
  /\ ~env.closing
  /\ env.phase # "fresh"
  /\ LET w0 == [World EXCEPT !.env.closing = TRUE] IN
     Commit(IF env.in_reactor THEN DestroyConnection(w0, "Aborted") ELSE w0,
            "ReactorShutdown", 0)

\* libev: the socket is readable (or in error) and read_io_ is started.
ReadReady ==
  /\ Running
  /\ conn.read_io_active
  /\ \E in \in ReadInputs(conn, env.nframes) :
       Commit(ReadHandler(World, in), "ReadHandler", in.rx)

\* libev: the socket is writable (or in error) and write_io_ is started.
WriteReady ==
  /\ Running
  /\ conn.write_io_active
  /\ \E in \in WriteInputs(World) :
       Commit(WriteHandler(World, in), "WriteHandler", in.ev_error)

\* libev: the timeout timer of a pending entry fires.
TimerFire ==
  /\ Running
  /\ \E id \in DOMAIN conn.awaiting_response_ :
       /\ conn.awaiting_response_[id].timer
       /\ Commit(HandleTimeout(World, id), "HandleOutboundCallTimeout", id)

\* The reactor hands a new outbound call to the client connection.
OutboundCallQueued ==
  /\ Running
  /\ conn.direction_ = "CLIENT"
  /\ env.phase # "fresh"
  /\ Len(calls) < MaxCalls
  /\ \E in \in [timeout : BOOLEAN, ser_ok : BOOLEAN] :
       Commit(QueueOutboundCall(World, in), "QueueOutboundCall", in)

\* A service thread responds to an inbound call it was handed.
ResponseQueued ==
  /\ Running
  /\ \E f \in svc.handling :
       Commit(QueueResponseForCall(World, f), "QueueResponseForCall", f.seq)

\* The last reference to the connection is dropped: the reactor no longer
\* lists it, the negotiation driver and its completion task are done with
\* it, and no inbound call of it is alive.
ConnectionReleased ==
  /\ Running
  /\ ~env.in_reactor
  /\ env.phase # "negotiating"
  /\ \A i \in DOMAIN tasks : tasks[i].type # "neg"
  /\ svc.inflight = {}
  /\ Commit(ConnectionDtor(World), "~Connection", 0)

Next ==
  \/ RegisterConnection
  \/ NegotiationDone
  \/ RunTask
  \/ AbortTask
  \/ ReactorShutdown
  \/ ReadReady
  \/ WriteReady
  \/ TimerFire
  \/ OutboundCallQueued
  \/ ResponseQueued
  \/ ConnectionReleased

Spec == Init /\ [][Next]_vars

\* The reactor loop keeps dispatching what is ready: an armed libev timer
\* fires, a queued reactor task is run or aborted, a socket with queued
\* output becomes writable; the negotiation driver comes to an end. Input
\* from the peer is not promised.
FairSpec ==
  /\ Spec
  /\ WF_vars(NegotiationDone)
  /\ WF_vars(TimerFire)
  /\ WF_vars(RunTask)
  /\ WF_vars(AbortTask)
  /\ WF_vars(WriteReady)

----------------------------------------------------------------------------
\* Properties.

TerminalEdges(c) == c.nResponse + c.nTimedOut + c.nFailed

\* C1: for every outbound call QueueOutboundCall accepted, SetResponse,
\* SetTimedOut and SetFailed are together invoked at most once, under any
\* interleaving of responses, timer fires and Shutdown.
C1_AtMostOneTerminalEdge ==
  \A k \in DOMAIN calls : calls[k].accepted => TerminalEdges(calls[k]) <= 1

\* A call timed out, another got its response, and the connection was then
\* shut down.
C1_Witness ==
  /\ conn.shutdown_status_ # "OK"
  /\ \E k \in DOMAIN calls : calls[k].accepted /\ calls[k].nTimedOut = 1
  /\ \E k \in DOMAIN calls : calls[k].accepted /\ calls[k].nResponse = 1

LiveAwaiting(c) == {c.awaiting_response_[id].call : id \in DOMAIN c.awaiting_response_} \ {0}

\* C2: once Shutdown(s) has run, the pending map and the outbound queue are
\* empty and is_epoll_registered_ is false; the step that shuts down fails
\* every call with a live handle in the pending map with s, once, and leaves
\* every other call as it was.
C2_ShutdownCompleteness ==
  /\ [](conn.shutdown_status_ # "OK" =>
          /\ DOMAIN conn.awaiting_response_ = {}
          /\ conn.outbound_transfers_ = <<>>
          /\ ~conn.is_epoll_registered_)
  /\ [][conn'.shutdown_status_ # conn.shutdown_status_ =>
          \A k \in DOMAIN calls :
            IF k \in LiveAwaiting(conn)
            THEN /\ calls'[k].state = "FINISHED_ERROR"
                 /\ calls'[k].status = conn'.shutdown_status_
                 /\ calls'[k].nFailed = calls[k].nFailed + 1
                 /\ calls'[k].nResponse = calls[k].nResponse
                 /\ calls'[k].nTimedOut = calls[k].nTimedOut
            ELSE calls'[k] = calls[k]]_vars

\* Shut down with one call failed by the shutdown, after it was sent, and
\* another that had timed out before.
C2_Witness ==
  /\ conn.shutdown_status_ = "NetworkError"
  /\ \E k \in DOMAIN calls :
       calls[k].accepted /\ calls[k].state = "FINISHED_ERROR"
       /\ calls[k].status = "NetworkError"
  /\ \E k \in DOMAIN calls : calls[k].state = "TIMED_OUT"
  /\ \E t \in DOMAIN xfers : xfers[t].nFinished = 1

AssignedCalls == SelectSeq(calls, LAMBDA c : c.call_id # NoCallId)

\* C3: the calls that reached id assignment got the ids 1, 2, ..., N in
\* invocation order, and the next id is N + 1.
C3_CallIdsInOrder ==
  /\ \A j \in 1..Len(AssignedCalls) : AssignedCalls[j].call_id = j
  /\ conn.next_call_id_ = Len(AssignedCalls) + 1

\* Two ids were assigned; the first call timed out and its late response
\* has been absorbed.
C3_Witness ==
  /\ Len(AssignedCalls) >= 2
  /\ AssignedCalls[1].state = "TIMED_OUT"
  /\ 1 \notin DOMAIN conn.awaiting_response_
  /\ 2 \in DOMAIN conn.awaiting_response_

RECURSIVE BytesOf(_)
BytesOf(ts) ==
  IF ts = <<>> THEN <<>> ELSE [i \in 1..XferSize |-> Head(ts)] \o BytesOf(Tail(ts))

IsPrefix(a, b) == Len(a) <= Len(b) /\ a = SubSeq(b, 1, Len(a))

\* C4: the bytes written to the socket are a prefix of
\* bytes(T1) || ... || bytes(Tn) for the transfers T1..Tn in the order they
\* were passed to QueueOutbound, and the queue holds exactly the transfers
\* not fully sent, oldest first.
C4_QueueOrder ==
  /\ IsPrefix(env.wire, BytesOf(env.enq))
  /\ conn.shutdown_status_ = "OK" =>
       /\ IsPrefix(conn.outbound_transfers_,
                   SubSeq(env.enq, Len(env.enq) - Len(conn.outbound_transfers_) + 1,
                          Len(env.enq)))
       /\ Len(conn.outbound_transfers_) <= Len(env.enq)
       /\ \A i \in 1..Len(env.enq) :
            i <= Len(env.enq) - Len(conn.outbound_transfers_)
              <=> TransferFinished(xfers[env.enq[i]])

\* A second transfer is partly on the wire behind a first, complete one.
C4_Witness ==
  \E t1, t2 \in DOMAIN xfers :
    /\ t1 # t2
    /\ TransferFinished(xfers[t1])
    /\ xfers[t2].sent > 0 /\ ~TransferFinished(xfers[t2])
    /\ Len(env.enq) >= 2

\* C5: Idle() is true exactly when the inbound transfer is absent or not
\* started, the outbound queue, the pending map and the inbound-call map are
\* empty, and negotiation is complete.
C5_IdleCharacterization ==
  Idle(conn) <=>
    /\ conn.inbound_ = <<>> \/ ~TransferStarted(conn.inbound_[1])
    /\ conn.outbound_transfers_ = <<>>
    /\ DOMAIN conn.awaiting_response_ = {}
    /\ DOMAIN conn.calls_being_handled_ = {}
    /\ conn.negotiation_complete_

\* The connection is idle again after it carried traffic.
C5_Witness ==
  /\ Idle(conn)
  /\ env.wire # <<>>
  /\ env.nframes > 0
  /\ conn.inbound_ # <<>>

\* C6: a timer that fires marks the call timed out, clears the entry's call
\* handle and keeps the entry under its call id; a response that then
\* arrives for that id removes the entry, changes no call and is logged on
\* the quiet path, not as "was not pending".
C6_LateResponseTolerance ==
  [][/\ last'.op = "HandleOutboundCallTimeout" =>
          LET id == last'.arg
              k == conn.awaiting_response_[id].call
          IN /\ k # 0
             /\ calls'[k].state = "TIMED_OUT"
             /\ calls'[k].nTimedOut = 1
             /\ id \in DOMAIN conn'.awaiting_response_
             /\ conn'.awaiting_response_[id].call = 0
     /\ (/\ last'.op = "ReadHandler"
         /\ conn.proto = "YB" /\ conn.direction_ = "CLIENT"
         /\ last'.arg.fs # <<>>
         /\ last'.arg.fs[1].ok
         /\ last'.arg.fs[1].id \in DOMAIN conn.awaiting_response_
         /\ conn.awaiting_response_[last'.arg.fs[1].id].call = 0) =>
          /\ last'.arg.fs[1].id \notin DOMAIN conn'.awaiting_response_
          /\ calls' = calls
          /\ last'.log = "vlog: response after timeout"
    ]_vars

\* A response arrived for a call that had timed out.
C6_Witness ==
  /\ last.op = "ReadHandler"
  /\ last.log = "vlog: response after timeout"
  /\ \E k \in DOMAIN calls : calls[k].state = "TIMED_OUT"
                             /\ calls[k].call_id \notin DOMAIN conn.awaiting_response_

\* C7: on a connection shut down with status s, QueueOutboundCall fails the
\* new call with s and changes nothing else: no id, no pending entry, no
\* timer, no transfer.
C7_QueueAfterShutdown ==
  [][(last'.op = "QueueOutboundCall" /\ conn.shutdown_status_ # "OK") =>
       /\ conn' = conn
       /\ xfers' = xfers
       /\ tasks' = tasks
       /\ env' = env
       /\ Len(calls') = Len(calls) + 1
       /\ SubSeq(calls', 1, Len(calls)) = calls
       /\ calls'[Len(calls')] =
            SetFailedCall(NewCall(last'.arg.timeout), conn.shutdown_status_)
    ]_vars

\* A call was handed to a connection that had been shut down.
C7_Witness ==
  /\ last.op = "QueueOutboundCall"
  /\ conn.shutdown_status_ # "OK"
  /\ Len(calls) >= 2
  /\ calls[Len(calls)].call_id = NoCallId
  /\ calls[Len(calls)].state = "FINISHED_ERROR"
  /\ calls[1].status = calls[Len(calls)].status
  /\ calls[1].accepted

InTask(t) == \E i \in DOMAIN tasks : tasks[i].type = "xfer" /\ tasks[i].t = t

InQueue(t) == \E i \in DOMAIN conn.outbound_transfers_ : conn.outbound_transfers_[i] = t

\* C8: of every outbound transfer's two callback edges at most one has
\* fired, once; none has while the transfer waits in a task or in the
\* queue, and exactly one has once the transfer is gone from both.
C8_ExactlyOneCallbackEdge ==
  \A t \in DOMAIN xfers :
    /\ xfers[t].nFinished + xfers[t].nAborted <= 1
    /\ (InTask(t) \/ InQueue(t)) => xfers[t].nFinished + xfers[t].nAborted = 0
    /\ ~(InTask(t) \/ InQueue(t)) => xfers[t].nFinished + xfers[t].nAborted = 1

\* One transfer was sent and one was aborted by Shutdown while queued.
C8_Witness ==
  \E t1, t2 \in DOMAIN xfers :
    /\ xfers[t1].nFinished = 1
    /\ xfers[t2].nAborted = 1 /\ ~xfers[t2].aborted_

\* C9: on a YB server connection no two in-flight inbound calls have the
\* same call id and calls_being_handled_ maps exactly the in-flight calls;
\* a frame whose call id is being handled is neither registered nor
\* dispatched and shuts the connection down with "Received duplicate call
\* id", the first call with that id having been dispatched.
C9_DuplicateCallId ==
  /\ [](conn.proto = "YB" /\ conn.direction_ = "SERVER" =>
          /\ \A a, b \in svc.inflight : a.id = b.id => a = b
          /\ DOMAIN conn.calls_being_handled_ = {f.id : f \in svc.inflight}
          /\ \A f \in svc.inflight : conn.calls_being_handled_[f.id] = f.seq)
  /\ [][(/\ last'.op = "ReadHandler"
         /\ conn.proto = "YB" /\ conn.direction_ = "SERVER"
         /\ last'.arg.fs # <<>>
         /\ last'.arg.fs[1].ok
         /\ last'.arg.fs[1].id \in DOMAIN conn.calls_being_handled_) =>
          /\ \A id \in DOMAIN conn'.calls_being_handled_ :
               /\ id \in DOMAIN conn.calls_being_handled_
               /\ conn'.calls_being_handled_[id] = conn.calls_being_handled_[id]
          /\ svc'.dispatched = svc.dispatched
          /\ svc'.handling = svc.handling
          /\ svc'.inflight \subseteq svc.inflight
          /\ conn'.shutdown_status_ = "RuntimeError: Received duplicate call id"
          /\ \E i \in DOMAIN svc.dispatched :
               svc.dispatched[i] = conn.calls_being_handled_[last'.arg.fs[1].id]
    ]_vars

\* A second frame with the call id of a call being handled arrived.
C9_Witness ==
  /\ conn.proto = "YB" /\ conn.direction_ = "SERVER"
  /\ last.op = "ReadHandler"
  /\ conn.shutdown_status_ = "RuntimeError: Received duplicate call id"
  /\ Len(svc.dispatched) = 1
  /\ env.nframes = 2

\* C10: on a Redis server connection at most one inbound call is in flight
\* (handed to the service, its response callback not yet destroyed).
C10_RedisSingleInFlight ==
  conn.proto = "Redis" => Cardinality(svc.inflight) <= 1

\* A complete second request is parked behind the call in flight.
C10_Witness ==
  /\ conn.proto = "Redis"
  /\ Cardinality(svc.inflight) = 1
  /\ conn.processing_call_
  /\ conn.inbound_ # <<>>
  /\ InboundTransferFinished(conn.inbound_[1])

\* The complete frames buffered in the inbound transfer.
BufferedFrames(c) == IF c.inbound_ = <<>> THEN <<>> ELSE c.inbound_[1].frames

\* The complete request parked at the head of the Redis inbound transfer.
ParkedRequest(c) ==
  IF c.proto = "Redis" /\ c.processing_call_ /\ c.inbound_ # <<>>
     /\ InboundTransferFinished(c.inbound_[1])
  THEN <<c.inbound_[1].frames[1]>>
  ELSE <<>>

\* C11: on a Redis server connection a request whose transfer completes
\* while a call is being processed is not dispatched by the read and stays
\* buffered; the write that sends the last byte of that call's response
\* dispatches the parked request (if it parses) in the same handler run,
\* with no further read.
C11_ParkedRequestRedriven ==
  [][/\ (/\ last'.op = "ReadHandler"
          /\ conn.proto = "Redis"
          /\ conn.processing_call_
          /\ conn'.shutdown_status_ = "OK") =>
           /\ svc'.dispatched = svc.dispatched
           /\ conn'.processing_call_
           /\ conn'.inbound_ # <<>>
           /\ conn'.inbound_[1].frames = BufferedFrames(conn) \o last'.arg.fs
     /\ (/\ ParkedRequest(conn) # <<>>
          /\ ParkedRequest(conn)[1].ok
          /\ \E t \in DOMAIN xfers :
               /\ xfers[t].kind = "resp"
               /\ xfers[t].nFinished = 0
               /\ xfers'[t].nFinished = 1) =>
           /\ last'.op = "WriteHandler"
           /\ svc'.dispatched = Append(svc.dispatched, ParkedRequest(conn)[1].seq)
           /\ ParkedRequest(conn)[1] \in svc'.inflight
    ]_vars

\* The second request was read while the first was being processed and was
\* dispatched by the write handler that finished the first response.
C11_Witness ==
  /\ conn.proto = "Redis"
  /\ last.op = "WriteHandler"
  /\ svc.dispatched = <<1, 2>>
  /\ \E f \in svc.inflight : f.seq = 2
  /\ \E t \in DOMAIN xfers : xfers[t].kind = "resp" /\ xfers[t].ref.seq = 1
                               /\ xfers[t].nFinished = 1

\* C12: whenever the outbound queue is non-empty, write interest is armed or
\* negotiation is still in progress.
C12_WriteArmedWhenQueued ==
  conn.outbound_transfers_ # <<>> =>
    conn.write_io_active \/ ~conn.negotiation_complete_

\* C13: while negotiation_complete_ is false the write watcher is not
\* started and nothing has been written to the socket; WriteHandler only
\* runs on a connection whose negotiation completed; a failed negotiation
\* leaves negotiation_complete_ false and shuts the connection down.
C13_NoWriteBeforeNegotiation ==
  /\ [](~conn.negotiation_complete_ =>
          /\ ~conn.write_io_active
          /\ env.wire = <<>>
          /\ \A t \in DOMAIN xfers : xfers[t].sent = 0 /\ xfers[t].nFinished = 0)
  /\ [][/\ last'.op = "WriteHandler" => conn.negotiation_complete_
        /\ (last'.op = "RunTask" /\ last'.arg.type = "neg" /\ last'.arg.st # "OK") =>
             /\ ~conn'.negotiation_complete_
             /\ conn'.shutdown_status_ # "OK"
             /\ env'.wire = <<>>
       ]_vars

\* Negotiation failed on a client that had calls queued while negotiating.
C13_Witness ==
  /\ conn.shutdown_status_ = "NegotiationFailed"
  /\ ~conn.negotiation_complete_
  /\ last.op = "RunTask"
  /\ \E t \in DOMAIN xfers : xfers[t].kind = "call" /\ xfers[t].nAborted = 1

\* The transfers in the outbound queue.
Queued(c) == {c.outbound_transfers_[i] : i \in DOMAIN c.outbound_transfers_}

\* C14: a call of CompleteNegotiation or QueueResponseForCall changes no
\* field of the connection (queue, maps, negotiation flag, watchers), no
\* outbound call and nothing on the wire, and appends exactly one task to
\* the reactor's queue; negotiation_complete_ changes only when the reactor
\* runs the NegotiationCompletedTask, and a response transfer enters the
\* outbound queue only when the reactor runs its QueueTransferTask.
C14_CrossThreadEntryPoints ==
  [][/\ last'.op \in {"CompleteNegotiation", "QueueResponseForCall"} =>
          /\ conn' = conn
          /\ calls' = calls
          /\ env'.wire = env.wire
          /\ Len(tasks') = Len(tasks) + 1
          /\ SubSeq(tasks', 1, Len(tasks)) = tasks
          /\ tasks'[Len(tasks')].type =
               (IF last'.op = "CompleteNegotiation" THEN "neg" ELSE "xfer")
     /\ conn'.negotiation_complete_ # conn.negotiation_complete_ =>
          /\ last'.op = "RunTask"
          /\ last'.arg.type = "neg"
     /\ \A t \in Queued(conn') \ Queued(conn) :
          xfers'[t].kind = "resp" =>
            /\ last'.op = "RunTask"
            /\ last'.arg.type = "xfer"
            /\ last'.arg.t = t
    ]_vars

\* A response handed over by a service thread waits in a task while the
\* connection's queue is still empty; negotiation was completed by a task.
C14_Witness ==
  /\ last.op = "QueueResponseForCall"
  /\ conn.negotiation_complete_
  /\ conn.outbound_transfers_ = <<>>
  /\ \E i \in DOMAIN tasks : tasks[i].type = "xfer"

\* The Negotiating state: after EpollRegister, before MarkNegotiationComplete.
Negotiating(c) == c.is_epoll_registered_ /\ ~c.negotiation_complete_

C16_DestructorChecksHold ==
  /\ conn.shutdown_status_ # "OK" =>
       /\ conn.outbound_transfers_ = <<>>
       /\ ~conn.is_epoll_registered_
       /\ ~conn.read_io_active
       /\ ~conn.write_io_active
  /\ env.phase = "destroyed" =>
       /\ "CHECK(outbound_transfers_ empty)" \notin env.dcheck
       /\ "CHECK(!is_epoll_registered_)" \notin env.dcheck

\* The connection was destroyed after a response was handed to QueueOutbound
\* on it when it was already shut down, and after a call was refused.
C16_Witness ==
  /\ env.phase = "destroyed"
  /\ conn.shutdown_status_ # "OK"
  /\ \E t \in DOMAIN xfers :
       xfers[t].kind = "resp" /\ xfers[t].aborted_
       /\ xfers[t].astatus = conn.shutdown_status_

\* The frames a ReadHandler run with input rx hands to parsing: the head of
\* what is buffered and read, unless a Redis call is being processed.
FrameParsed(c, rx) ==
  LET fs == BufferedFrames(c) \o rx.fs IN
  IF fs = <<>> \/ (c.proto = "Redis" /\ c.processing_call_) THEN <<>> ELSE <<fs[1]>>

\* C17: on every protocol and direction, a read that completes a frame which
\* fails to parse tears the connection down with the parse status, the
\* process going on, and dispatches nothing.
C17_ParseFailureTearsDown ==
  [][(/\ last'.op = "ReadHandler"
      /\ FrameParsed(conn, last'.arg) # <<>>
      /\ ~FrameParsed(conn, last'.arg)[1].ok) =>
       /\ conn'.shutdown_status_ = "Corruption"
       /\ ~conn'.read_io_active
       /\ ~env'.crashed
       /\ svc'.dispatched = svc.dispatched
    ]_vars

\* C18: a timer that fires changes, in the connection, only the entry of its
\* call (handle cleared, timer spent): the outbound queue with the call's
\* own request transfer, the watchers, the socket, the shutdown status, the
\* next call id and every other entry are unchanged, as are the transfers,
\* the tasks, the wire and every other call; the timed-out call's transfer
\* is sent later like any other and leaves the call timed out.
C18_TimeoutIsLocal ==
  [][/\ last'.op = "HandleOutboundCallTimeout" =>
          LET id == last'.arg
              k == conn.awaiting_response_[id].call
          IN /\ conn' = [conn EXCEPT !.awaiting_response_[id] =
                                        [call |-> 0, timer |-> FALSE]]
             /\ conn'.shutdown_status_ = "OK"
             /\ xfers' = xfers
             /\ tasks' = tasks
             /\ svc' = svc
             /\ env' = env
             /\ \A j \in DOMAIN calls : j # k => calls'[j] = calls[j]
     /\ \A t \in DOMAIN xfers :
          (/\ xfers[t].kind = "call"
           /\ calls[xfers[t].ref].state = "TIMED_OUT"
           /\ xfers[t].nFinished = 0
           /\ xfers'[t].nFinished = 1) =>
            /\ last'.op = "WriteHandler"
            /\ calls'[xfers[t].ref] = calls[xfers[t].ref]
    ]_vars

\* A call timed out while its request was partly sent; the request is still
\* at the head of the queue with write interest armed.
C18_Witness ==
  /\ last.op = "HandleOutboundCallTimeout"
  /\ conn.write_io_active
  /\ conn.outbound_transfers_ # <<>>
  /\ LET t == Head(conn.outbound_transfers_) IN
       /\ xfers[t].kind = "call"
       /\ xfers[t].sent = 1
       /\ calls[xfers[t].ref].state = "TIMED_OUT"
       /\ calls[xfers[t].ref].call_id = last.arg

\* C19: once the connection is shut down with status s1, nothing that runs
\* later, a second Shutdown(s2) included, changes the recorded shutdown
\* status, reopens the queue, the pending map or a watcher, or changes an
\* outbound call that existed.
C19_ShutdownIdempotent ==
  [][conn.shutdown_status_ # "OK" =>
       /\ conn'.shutdown_status_ = conn.shutdown_status_
       /\ conn'.outbound_transfers_ = <<>>
       /\ DOMAIN conn'.awaiting_response_ = {}
       /\ ~conn'.read_io_active /\ ~conn'.write_io_active
       /\ \A k \in DOMAIN calls : calls'[k] = calls[k]
    ]_vars

\* C20: the inbound calls handed to the service are in the order their
\* frames completed on the wire: the dispatch log is strictly increasing in
\* the frames' wire numbers, and holds only frames that were read.
C20_DispatchInWireOrder ==
  /\ \A i, j \in DOMAIN svc.dispatched :
       i < j => svc.dispatched[i] < svc.dispatched[j]
  /\ \A i \in DOMAIN svc.dispatched : svc.dispatched[i] \in 1..env.nframes

\* Two Redis requests were dispatched, the second after having been parked,
\* and the second is now being processed.
C20_Witness ==
  /\ conn.proto = "Redis"
  /\ conn.shutdown_status_ = "OK"
  /\ svc.dispatched = <<1, 2>>
  /\ conn.processing_call_
  /\ conn.inbound_ = <<>>

\* C21: on a server connection, Idle() is false whenever an inbound call has
\* been handed to the service and its response callback has not yet seen
\* the response sent or aborted.
C21_NotIdleWhileHandling ==
  (conn.direction_ = "SERVER" /\ svc.inflight # {}) => ~Idle(conn)

ShutdownStatuses ==
  {"NetworkError", "Aborted", "Corruption", "NegotiationFailed",
   "RuntimeError: Received duplicate call id"}

\* The transfers queued in c that have not finished sending.
UnsentQueued(c, xs) ==
  {c.outbound_transfers_[i] : i \in 1..Len(c.outbound_transfers_)}
    \cap {t \in DOMAIN xs : xs[t].nFinished = 0}

\* Shutdown(s) applied to the current state: every queued unfinished
\* transfer is destroyed and its callback is told "aborted" once, the first
\* one with s, each one with the shutdown status in force when it was removed.
ShutdownAbortsQueued(s) ==
  LET w2 == Shutdown(World, s)
      q == conn.outbound_transfers_
  IN /\ w2.conn.outbound_transfers_ = <<>>
     /\ q # <<>> => w2.xfers[Head(q)].astatus = s
     /\ \A t \in UnsentQueued(conn, xfers) :
          /\ w2.xfers[t].nAborted = 1
          /\ w2.xfers[t].nFinished = 0
          /\ w2.xfers[t].deleted
          /\ w2.xfers[t].astatus \in {s, w2.conn.shutdown_status_}

C23_AcceptedCallTerminates ==
  \A k \in 1..MaxCalls :
    (k <= Len(calls) /\ calls[k].accepted /\ calls[k].timeout)
      ~> (k <= Len(calls) /\ IsFinished(calls[k]))

\* The Open state: negotiation is complete and Shutdown has not run.
OpenState(c) == c.negotiation_complete_ /\ c.shutdown_status_ = "OK"

C25_WriteHandlerPostcondition ==
  [][ (last'.op = "WriteHandler" /\ conn'.shutdown_status_ = "OK") =>
        LET q == conn.outbound_transfers_
            q2 == conn'.outbound_transfers_
            n == Len(q) - Len(q2)
        IN /\ n >= 0
           /\ q2 = SubSeq(q, n + 1, Len(q))
           /\ \A i \in 1..n :
                /\ ~xfers[q[i]].deleted /\ xfers[q[i]].nFinished = 0
                /\ xfers'[q[i]].deleted /\ xfers'[q[i]].nFinished = 1
                /\ xfers'[q[i]].nAborted = 0
                /\ xfers'[q[i]].sent = XferSize
           /\ \/ q2 = <<>> /\ ~conn'.write_io_active
              \/ /\ q2 # <<>>
                 /\ ~TransferFinished(xfers'[Head(q2)])
                 /\ ~xfers'[Head(q2)].deleted
                 /\ xfers'[Head(q2)].nFinished = 0
                 /\ conn'.write_io_active
           /\ \A i \in 2..Len(q2) : xfers'[q2[i]] = xfers[q2[i]]
    ]_vars

\* The write handler has just sent one whole transfer and part of the next.
C25_Witness ==
  /\ last.op = "WriteHandler"
  /\ conn.shutdown_status_ = "OK"
  /\ conn.outbound_transfers_ # <<>>
  /\ conn.write_io_active
  /\ xfers[Head(conn.outbound_transfers_)].sent \in 1..(XferSize - 1)
  /\ \E t \in DOMAIN xfers :
       /\ xfers[t].nFinished = 1 /\ xfers[t].deleted
       /\ Len(env.wire) = XferSize + xfers[Head(conn.outbound_transfers_)].sent

\* The frames the protocol handler has taken over from the connection's
\* inbound buffer in a ReadHandler step that read the frames fs.
HandedOff(c, fs, c2) ==
  Len(BufferedFrames(c)) + Len(fs) - Len(BufferedFrames(c2))

\* What one ReadHandler invocation does with the inbound transfer: it calls
\* HandleFinishedTransfer at most once, so at most one complete frame leaves
\* the inbound buffer and at most one call reaches the service, and a
\* transfer that is not complete is kept, with its bytes, for the next event.
OneHandoffPerRead ==
  last'.op = "ReadHandler" =>
    /\ Len(svc'.dispatched) - Len(svc.dispatched) \in {0, 1}
    /\ conn'.shutdown_status_ = "OK" =>
         /\ HandedOff(conn, last'.arg.fs, conn') \in {0, 1}
         /\ Len(svc'.dispatched) - Len(svc.dispatched)
              <= HandedOff(conn, last'.arg.fs, conn')
         /\ (BufferedFrames(conn) \o last'.arg.fs = <<>>) =>
              /\ conn' = [conn EXCEPT !.inbound_ =
                            << [frames |-> <<>>,
                                partial |-> \/ last'.arg.tail
                                            \/ /\ conn.inbound_ # <<>>
                                               /\ conn.inbound_[1].partial] >>]
              /\ UNCHANGED <<calls, xfers, tasks, svc>>

\* C26 as claimed: one ReadHandler invocation calls HandleFinishedTransfer
\* at most once, takes at most one complete inbound frame from the socket,
\* and keeps an incomplete transfer for the next event.
C26_OneFramePerReadEvent ==
  [][ /\ OneHandoffPerRead
      /\ last'.op = "ReadHandler" => Len(last'.arg.fs) <= 1
    ]_vars

\* C26 amended: one ReadHandler invocation calls HandleFinishedTransfer at
\* most once, so at most one complete inbound frame is handed to the
\* protocol handler per read-ready event; an incomplete transfer, and what a
\* Redis read took from the socket behind the first frame, is kept for later.
C26_OneHandoffPerReadEvent ==
  [][ /\ OneHandoffPerRead
      /\ (last'.op = "ReadHandler" /\ Len(last'.arg.fs) > 1) =>
           /\ conn.proto = "Redis"
           /\ conn'.shutdown_status_ = "OK" =>
                Len(BufferedFrames(conn')) >= Len(last'.arg.fs) - 1
    ]_vars

\* One read event took two complete Redis requests from the socket; one was
\* handed to the service, the other is kept in the next inbound transfer.
C26_Witness ==
  /\ last.op = "ReadHandler"
  /\ Len(last.arg.fs) = 2
  /\ Len(svc.dispatched) = 1
  /\ Len(BufferedFrames(conn)) = 1
  /\ conn.shutdown_status_ = "OK"

\* The transfers that carry the request of call k.
TransfersOf(k, xs) == {t \in DOMAIN xs : xs[t].kind = "call" /\ xs[t].ref = k}

\* C27: when the transfer-finished callback of an outbound call runs, the
\* call becomes "sent" only if it is not finished yet; a call that timed out
\* while its bytes were queued never becomes "sent"; the aborted callback
\* changes no call state.
C27_SentOnlyIfNotFinished ==
  [][ /\ \A k \in 1..Len(calls) :
           /\ IsFinished(calls[k]) => calls'[k].state = calls[k].state
           /\ (calls'[k].state = "SENT" /\ calls[k].state # "SENT") =>
                /\ calls[k].state = "ON_OUTBOUND_QUEUE"
                /\ last'.op = "WriteHandler"
                /\ \E t \in TransfersOf(k, xfers) :
                     xfers[t].nFinished = 0 /\ xfers'[t].nFinished = 1
           /\ CallTransferFinished(World, k).calls[k].state =
                IF IsFinished(calls[k]) THEN calls[k].state ELSE "SENT"
           /\ \A j \in 1..Len(calls) :
                j # k => CallTransferFinished(World, k).calls[j] = calls[j]
      /\ \A t \in DOMAIN xfers :
           xfers[t].kind = "call" =>
             \A s \in ShutdownStatuses :
               NotifyTransferAborted(World, t, s).calls = calls
    ]_vars

\* The write handler has finished sending the request of a call that had
\* already timed out: the call is still timed out.
C27_Witness ==
  /\ last.op = "WriteHandler"
  /\ Len(calls) = 1
  /\ \E k \in 1..Len(calls) :
       /\ calls[k].state = "TIMED_OUT"
       /\ \E t \in TransfersOf(k, xfers) : xfers[t].nFinished = 1

\* No completed frame is waiting in the connection's inbound transfer.
NoFrameParked(c) == BufferedFrames(c) = <<>>

\* C28: on a CQL server connection a completed inbound frame is handed off
\* in the read event that completes it, also while earlier calls are still
\* being handled; FinishedHandlingACall re-drives a completed transfer only
\* if one is present, and none ever is: no completed CQL frame stays parked.
C28_CQLPipelining ==
  [][ conn.proto = "CQL" =>
        /\ NoFrameParked(conn) /\ NoFrameParked(conn')
        /\ CQLFinishedHandlingACall(World) = World
        /\ (last'.op = "ReadHandler" /\ last'.arg.fs # <<>>) =>
             LET f == last'.arg.fs[1]
             IN IF f.ok
                THEN /\ svc'.dispatched = Append(svc.dispatched, f.seq)
                     /\ svc'.inflight = svc.inflight \cup {f}
                ELSE svc' = svc
    ]_vars

\* A CQL read event has just handed a second call to the service while the
\* first is still in flight.
C28_Witness ==
  /\ conn.proto = "CQL"
  /\ last.op = "ReadHandler"
  /\ Cardinality(svc.inflight) = 2
  /\ Len(svc.dispatched) = 2

\* The socket of c is closed only with both watchers stopped and the
\* epoll-registered flag cleared.
ClosedMeansUnregistered(c) ==
  ~c.socket_open =>
    ~c.read_io_active /\ ~c.write_io_active /\ ~c.is_epoll_registered_

\* C29: Shutdown stops both I/O watchers and clears the epoll-registered
\* flag before it closes the socket; once the socket is closed it stays
\* closed and no read or write handler runs on it.
C29_WatchersStoppedBeforeClose ==
  [][ /\ \A i \in 1..4 : ClosedMeansUnregistered(CloseSteps(conn)[i])
      /\ ClosedMeansUnregistered(conn')
      /\ last'.op \in {"ReadHandler", "WriteHandler"} => conn.socket_open
      /\ ~conn.socket_open => ~conn'.socket_open
    ]_vars

\* A write error has just shut the connection down: both watchers were
\* armed when the handler started and the socket is now closed.
C29_Witness ==
  /\ last.op = "WriteHandler"
  /\ conn.shutdown_status_ = "NetworkError"
  /\ ~conn.socket_open
  /\ ~conn.read_io_active /\ ~conn.write_io_active
  /\ ~conn.is_epoll_registered_

\* The entries allocated from car_pool_ are exactly the entries of the
\* pending map, and no call is held by two of them.
PoolAccounted(c) ==
  /\ c.car_pool_live = Cardinality(DOMAIN c.awaiting_response_)
  /\ \A a, b \in DOMAIN c.awaiting_response_ :
       (c.awaiting_response_[a].call # 0
          /\ c.awaiting_response_[a].call = c.awaiting_response_[b].call) => a = b
  /\ c.shutdown_status_ # "OK" =>
       (c.car_pool_live = 0 /\ c.awaiting_response_ = EmptyMap)

\* C30: between operations every pending entry allocated from the pool is
\* in the pending map under exactly one call id; an entry leaves the map
\* only when it is returned to the pool, by the response for its id or by
\* Shutdown (a timeout keeps it); after Shutdown no entry is allocated.
C30_PoolEntriesAccounted ==
  [][ /\ PoolAccounted(conn) /\ PoolAccounted(conn')
      /\ \A id \in DOMAIN conn.awaiting_response_ :
           IF id \in DOMAIN conn'.awaiting_response_
           THEN conn'.awaiting_response_[id].call
                  \in {conn.awaiting_response_[id].call, 0}
           ELSE \/ /\ last'.op = "ReadHandler"
                   /\ last'.arg.fs # <<>> /\ last'.arg.fs[1].id = id
                   /\ conn'.shutdown_status_ = "OK"
                   /\ conn'.car_pool_live = conn.car_pool_live - 1
                \/ /\ conn.shutdown_status_ = "OK"
                   /\ conn'.shutdown_status_ # "OK"
      /\ \A id \in DOMAIN conn'.awaiting_response_ \ DOMAIN conn.awaiting_response_ :
           /\ last'.op = "QueueOutboundCall"
           /\ id = conn.next_call_id_
           /\ conn'.car_pool_live = conn.car_pool_live + 1
      /\ last'.op = "HandleOutboundCallTimeout" =>
           /\ DOMAIN conn'.awaiting_response_ = DOMAIN conn.awaiting_response_
           /\ conn'.car_pool_live = conn.car_pool_live
    ]_vars

\* A response has just arrived for a call that had timed out: its entry,
\* the last one allocated, left the map and went back to the pool.
C30_Witness ==
  /\ last.op = "ReadHandler"
  /\ last.log = "vlog: response after timeout"
  /\ conn.shutdown_status_ = "OK"
  /\ conn.awaiting_response_ = EmptyMap
  /\ conn.car_pool_live = 0
  /\ \E k \in 1..Len(calls) : calls[k].state = "TIMED_OUT"

\* C31: once Shutdown has run, no inbound call of the connection is handed
\* to the service any more, neither in the step that shuts the connection
\* down nor later; in particular the abort of a pending Redis response does
\* not dispatch a request parked in the inbound transfer.
C31_NoDispatchAfterShutdown ==
  [][ conn'.shutdown_status_ # "OK" => svc'.dispatched = svc.dispatched ]_vars

\* C32: whenever the transfer-finished callback of an outbound call finds
\* the call already finished, the call is timed out: the DCHECK of
\* CallTransferCallbacks::NotifyTransferFinished never fails, because no
\* call is responded or failed before its request transfer has finished.
C32_FinishedBeforeSentIsTimedOut ==
  /\ "call_->IsTimedOut()" \notin env.dcheck
  /\ \A k \in 1..Len(calls) :
       calls[k].state = "FINISHED_SUCCESS" =>
         \E t \in TransfersOf(k, xfers) : xfers[t].nFinished = 1

\* An entry whose timer is armed holds a call that is not finished.
ArmedTimersHoldLiveCalls(c, cs) ==
  \A id \in DOMAIN c.awaiting_response_ :
    c.awaiting_response_[id].timer =>
      /\ c.awaiting_response_[id].call \in 1..Len(cs)
      /\ ~IsFinished(cs[c.awaiting_response_[id].call])

\* C33: the timeout handler runs only for a pending entry whose call handle
\* is set and whose call is not finished, so both DCHECKs of
\* HandleOutboundCallTimeout hold; the timer of an entry fires at most once,
\* and not after the response or Shutdown returned the entry to the pool.
C33_TimeoutOnlyForLiveEntry ==
  [][ /\ ArmedTimersHoldLiveCalls(conn, calls)
      /\ ArmedTimersHoldLiveCalls(conn', calls')
      /\ env'.dcheck \cap {"car->call", "!car->call->IsFinished()"} = {}
      /\ \A id \in DOMAIN conn.awaiting_response_ \cap DOMAIN conn'.awaiting_response_ :
           conn'.awaiting_response_[id].timer => conn.awaiting_response_[id].timer
      /\ last'.op = "HandleOutboundCallTimeout" =>
           LET id == last'.arg IN
           /\ conn.shutdown_status_ = "OK"
           /\ id \in DOMAIN conn.awaiting_response_
           /\ conn.awaiting_response_[id].timer
           /\ ~conn'.awaiting_response_[id].timer
           /\ LET k == conn.awaiting_response_[id].call
              IN /\ ~IsFinished(calls[k])
                 /\ calls'[k].state = "TIMED_OUT"
                 /\ calls'[k].nTimedOut = 1
    ]_vars

\* The timer of a call has just fired, once, while a second call whose timer
\* is still armed is pending.
C33_Witness ==
  /\ last.op = "HandleOutboundCallTimeout"
  /\ \E a, b \in DOMAIN conn.awaiting_response_ :
       /\ conn.awaiting_response_[a].call = 0
       /\ ~conn.awaiting_response_[a].timer
       /\ conn.awaiting_response_[b].timer
  /\ \E k \in 1..Len(calls) : calls[k].state = "TIMED_OUT"

\* The call ids whose pending entry is the tombstone of a timed-out call.
Tombstones(c) ==
  {id \in DOMAIN c.awaiting_response_ : c.awaiting_response_[id].call = 0}

\* C34: the tombstone entry of a timed-out call keeps the connection
\* non-idle: from the timeout on Idle() is false until a response for that
\* call id arrives or the connection is shut down.
C34_TombstoneKeepsNonIdle ==
  [][ /\ last'.op = "HandleOutboundCallTimeout" =>
           (last'.arg \in Tombstones(conn') /\ ~Idle(conn'))
      /\ \A id \in Tombstones(conn) :
           /\ ~Idle(conn)
           /\ \/ id \in Tombstones(conn') /\ ~Idle(conn')
              \/ /\ last'.op = "ReadHandler"
                 /\ last'.arg.fs # <<>> /\ last'.arg.fs[1].id = id
              \/ conn'.shutdown_status_ # "OK"
    ]_vars

\* Only the tombstone of a timed-out call keeps the connection from being
\* idle: the request is sent, nothing is queued or being received.
C34_Witness ==
  /\ Tombstones(conn) # {}
  /\ DOMAIN conn.awaiting_response_ = Tombstones(conn)
  /\ conn.shutdown_status_ = "OK"
  /\ ~Idle(conn)
  /\ Idle([conn EXCEPT !.awaiting_response_ = EmptyMap])

\* C35: a well-formed response whose call id is not in the pending map
\* (never issued, already answered, or a second response to a timed-out
\* call) is ignored with a warning: the connection is not torn down, and the
\* pending map, the outbound queue, every call and the next call id are
\* unchanged; only the inbound transfer that carried it is released.
C35_UnknownResponseIgnored ==
  [][ (/\ last'.op = "ReadHandler"
       /\ conn.proto = "YB" /\ conn.direction_ = "CLIENT"
       /\ last'.arg.fs # <<>>
       /\ last'.arg.fs[1].ok
       /\ last'.arg.fs[1].id \notin DOMAIN conn.awaiting_response_) =>
        /\ conn' = [conn EXCEPT !.inbound_ = <<>>]
        /\ conn'.shutdown_status_ = "OK" /\ conn'.socket_open
        /\ conn'.read_io_active
        /\ calls' = calls
        /\ xfers' = xfers
        /\ tasks' = tasks
        /\ ~env'.crashed /\ env'.dcheck = env.dcheck
        /\ last'.log = "warning: not pending"
    ]_vars

\* A second response has just arrived for a call id that was already
\* answered, while another call is still pending.
C35_Witness ==
  /\ last.op = "ReadHandler"
  /\ last.log = "warning: not pending"
  /\ conn.shutdown_status_ = "OK"
  /\ DOMAIN conn.awaiting_response_ # {}
  /\ \E k \in 1..Len(calls) :
       /\ calls[k].state = "FINISHED_SUCCESS"
       /\ calls[k].call_id = last.arg.fs[1].id

\* A second late response has just arrived for a timed-out call whose
\* tombstone the first late response had removed.
SecondLateResponseIgnored ==
  /\ last.op = "ReadHandler"
  /\ last.log = "warning: not pending"
  /\ \E k \in 1..Len(calls) :
       /\ calls[k].state = "TIMED_OUT"
       /\ calls[k].call_id = last.arg.fs[1].id

\* The inbound call with wire number n is registered in
\* calls_being_handled_ and the service has responded to it.
RespondedAndRegistered(n) ==
  /\ conn.proto = "YB" /\ conn.direction_ = "SERVER"
  /\ \E f \in svc.inflight \ svc.handling :
       /\ f.seq = n
       /\ f.id \in DOMAIN conn.calls_being_handled_
       /\ conn.calls_being_handled_[f.id] = n

\* C36: every YB inbound call registered in calls_being_handled_ is
\* eventually removed from it once the service has responded, whether its
\* response transfer finishes sending or is aborted.
C36_HandledCallRemoved ==
  \A n \in 1..MaxFrames :
    RespondedAndRegistered(n) ~> ~RespondedAndRegistered(n)

\* C37: when serializing the call fails inside QueueOutboundCall, the call
\* is failed with the serialization status and is never queued; it gets no
\* pending entry, no timer and no transfer; the call id assigned to it is
\* consumed, so the next call that reaches id assignment gets the next id.
C37_SerializeFailure ==
  [][ /\ (/\ last'.op = "QueueOutboundCall"
          /\ conn.shutdown_status_ = "OK"
          /\ ~last'.arg.ser_ok) =>
           /\ calls' = Append(calls,
                  SetFailedCall([NewCall(last'.arg.timeout)
                                   EXCEPT !.call_id = conn.next_call_id_],
                                "SerializeError"))
           /\ ~calls'[Len(calls')].accepted
           /\ conn' = [conn EXCEPT !.next_call_id_ = conn.next_call_id_ + 1]
           /\ xfers' = xfers
           /\ tasks' = tasks
           /\ env' = env
      /\ (/\ last'.op = "QueueOutboundCall"
          /\ conn.shutdown_status_ = "OK"
          /\ last'.arg.ser_ok) =>
           /\ calls'[Len(calls')].call_id = conn.next_call_id_
           /\ calls'[Len(calls')].accepted
           /\ \A k \in 1..Len(calls) :
                calls[k].call_id # NoCallId =>
                  calls[k].call_id < calls'[Len(calls')].call_id
    ]_vars

\* A call was accepted with id 2 right after the call that got id 1 had
\* failed to serialize.
C37_Witness ==
  /\ last.op = "QueueOutboundCall"
  /\ Len(calls) = 2
  /\ calls[1].state = "FINISHED_ERROR" /\ calls[1].status = "SerializeError"
  /\ calls[1].call_id = 1
  /\ calls[2].accepted /\ calls[2].call_id = 2
  /\ DOMAIN conn.awaiting_response_ = {2}

\* C38: DumpPB reports NEGOTIATING exactly when negotiation_complete_ is
\* false and OPEN otherwise, includes the user credentials only when OPEN,
\* and on a client connection lists exactly the pending calls whose call
\* handle is still set: the tombstone of a timed-out call is not listed.
C38_DumpPB ==
  LET pb == DumpPB(conn) IN
  /\ pb.state \in {"NEGOTIATING", "OPEN"}
  /\ pb.state = "NEGOTIATING" <=> ~conn.negotiation_complete_
  /\ pb.remote_user_credentials # <<>> <=> pb.state = "OPEN"
  /\ conn.direction_ = "CLIENT" =>
       /\ pb.calls_in_flight =
            {k \in 1..Len(calls) :
               /\ calls[k].call_id \in DOMAIN conn.awaiting_response_
               /\ calls[k].state # "TIMED_OUT"}
       /\ \A k \in pb.calls_in_flight : ~IsFinished(calls[k])
       /\ Cardinality(pb.calls_in_flight) =
            Cardinality(DOMAIN conn.awaiting_response_ \ Tombstones(conn))
  /\ conn.direction_ = "SERVER" =>
       pb.calls_in_flight =
         {conn.calls_being_handled_[id] : id \in DOMAIN conn.calls_being_handled_}

\* An open client connection holds the tombstone of a timed-out call and the
\* entry of a live call: DumpPB lists the live call only.
C38_Witness ==
  /\ conn.direction_ = "CLIENT"
  /\ conn.negotiation_complete_
  /\ Tombstones(conn) # {}
  /\ DumpPB(conn).calls_in_flight = {2}
  /\ DumpPB(conn).state = "OPEN"
  /\ calls[1].state = "TIMED_OUT"

====
